---- MODULE Spec2Model ----
(***************************************************************************)
(* A model of mcreversi.cpp: the Board class (put, flipPlayer,             *)
(* getNextStates), the Monte-Carlo tree of Node objects and searchMove.    *)
(*                                                                         *)
(* Two specifications share the module:                                    *)
(*   SpecBoard   one Board object under the calls the program makes on it; *)
(*   Spec        one call of searchMove, step by step.                     *)
(***************************************************************************)
EXTENDS Integers, Sequences, FiniteSets, TLC

BOARD_SIZE == 8
BOARD_CELLS == BOARD_SIZE * BOARD_SIZE
MIN_VISITS_TO_EXPAND == 1

\* enum class Cell / enum class Player
BLACK == "BLACK"
WHITE == "WHITE"
EMPTY == "EMPTY"
Cell == {BLACK, WHITE, EMPTY}
Player == {BLACK, WHITE}

CellIdx == 0 .. (BOARD_CELLS - 1)

\* parseCell: tolower(chr) is 'x', 'o' or '.'
parseCell(chr) ==
    CASE chr \in {"x", "X"} -> BLACK
      [] chr \in {"o", "O"} -> WHITE
      [] chr = "."          -> EMPTY

\* Board(const std::string&): cells_.at(idx++) = parseCell(chr); the layout is
\* given here as the sequence of its 64 characters.
Board(str) == [idx \in CellIdx |-> parseCell(str[idx + 1])]

INITIAL_BOARD ==
    << ".", ".", ".", ".", ".", ".", ".", "." >> \o
    << ".", ".", ".", ".", ".", ".", ".", "." >> \o
    << ".", ".", ".", ".", ".", ".", ".", "." >> \o
    << ".", ".", ".", "O", "X", ".", ".", "." >> \o
    << ".", ".", ".", "X", "O", ".", ".", "." >> \o
    << ".", ".", ".", ".", ".", ".", ".", "." >> \o
    << ".", ".", ".", ".", ".", ".", ".", "." >> \o
    << ".", ".", ".", ".", ".", ".", ".", "." >>

\* Cell at(size_t x, size_t y) const
at(cells, x, y) == cells[x + y * BOARD_SIZE]

\* Cell& at(size_t x, size_t y), used as the target of an assignment
setAt(cells, x, y, v) == [cells EXCEPT ![x + y * BOARD_SIZE] = v]

isFilled(cells) == \A i \in CellIdx : cells[i] # EMPTY

\* the numerator of getBlackOccupation: the number of BLACK cells
countBlack(cells) == Cardinality({i \in CellIdx : cells[i] = BLACK})

\* flipPlayer without its case Cell::WHITE
flipPlayer_BlackOnly(cells) ==
    [i \in CellIdx |-> IF cells[i] = BLACK THEN WHITE ELSE cells[i]]

flipPlayer(cells) ==
    [i \in CellIdx |->
        CASE cells[i] = BLACK -> WHITE
          [] cells[i] = WHITE -> BLACK
          [] OTHER            -> cells[i]]

\* Board flipped() const
flipped(cells) == flipPlayer(cells)

\* isInBound(size_t x, size_t y, int dx, int dy).  The two early returns
\* exclude every case in which the unsigned sums x + dx, y + dy would wrap,
\* so the last line is evaluated on the integers.
isInBound(x, y, dx, dy) ==
    IF dx < 0 /\ (-dx) > x THEN FALSE
    ELSE IF dy < 0 /\ (-dy) > y THEN FALSE
    ELSE (x + dx < BOARD_SIZE) /\ (y + dy < BOARD_SIZE)

\* the (dx, dy) pairs in the order of the two nested loops of put
Directions ==
    << <<-1, -1>>, <<-1, 0>>, <<-1, 1>>,
       << 0, -1>>,            << 0, 1>>,
       << 1, -1>>, << 1, 0>>, << 1, 1>> >>

\* the inner for loop of put: walks from n while the cell is WHITE.
RECURSIVE scanRun(_, _, _, _, _, _)
scanRun(cells, x, y, dx, dy, n) ==
    IF ~isInBound(x, y, n * dx, n * dy)
    THEN [n |-> n, blackFound |-> FALSE]
    ELSE LET state == at(cells, x + n * dx, y + n * dy)
         IN  IF state = BLACK THEN [n |-> n, blackFound |-> TRUE]
             ELSE IF state # WHITE THEN [n |-> n, blackFound |-> FALSE]
             ELSE scanRun(cells, x, y, dx, dy, n + 1)

\* for (size_t i = 1; i < n; ++i) at(x + i * dx, y + i * dy) = Cell::BLACK;
RECURSIVE flipRun(_, _, _, _, _, _, _)
flipRun(cells, x, y, dx, dy, i, n) ==
    IF i < n
    THEN flipRun(setAt(cells, x + i * dx, y + i * dy, BLACK), x, y, dx, dy, i + 1, n)
    ELSE cells

\* the direction loop body with the test n > 1 left out
putDirection_NoRunTest(st, x, y, d) ==
    LET r == scanRun(st.cells, x, y, d[1], d[2], 1)
    IN  IF r.blackFound
        THEN [cells |-> flipRun(st.cells, x, y, d[1], d[2], 1, r.n), valid |-> TRUE]
        ELSE st

\* the body of put's direction loop for one (dx, dy), on the state (cells, valid)
putDirection(st, x, y, d) ==
    LET r == scanRun(st.cells, x, y, d[1], d[2], 1)
    IN  IF r.blackFound /\ r.n > 1
        THEN [cells |-> flipRun(st.cells, x, y, d[1], d[2], 1, r.n), valid |-> TRUE]
        ELSE st

RECURSIVE putLoop(_, _, _, _)
putLoop(st, x, y, k) ==
    IF k > Len(Directions) THEN st
    ELSE putLoop(putDirection(st, x, y, Directions[k]), x, y, k + 1)

\* put without the test at(x, y) != Cell::EMPTY
put_NoEmptyTest(cells, x, y) ==
    IF ~isInBound(x, y, 0, 0)
    THEN [cells |-> cells, valid |-> FALSE]
    ELSE putLoop([cells |-> setAt(cells, x, y, BLACK), valid |-> FALSE], x, y, 1)

\* bool put(size_t x, size_t y): the value returned and the cells_ it leaves
put(cells, x, y) ==
    IF ~isInBound(x, y, 0, 0) \/ at(cells, x, y) # EMPTY
    THEN [cells |-> cells, valid |-> FALSE]
    ELSE putLoop([cells |-> setAt(cells, x, y, BLACK), valid |-> FALSE], x, y, 1)

\* the inner loop body without the reset tmp = *this
nextStatesBody_NoReset(this, st) ==
    LET r == put(st.tmp, st.x, st.y)
    IN  [tmp    |-> r.cells,
         boards |-> IF r.valid THEN Append(st.boards, flipPlayer(r.cells))
                    ELSE st.boards,
         x      |-> st.x + 1,
         y      |-> st.y]

\* getNextStates.  The state of the two nested loops is (tmp, boards, x, y);
\* tmp is reset to *this after every attempt.  The body of the inner loop:
nextStatesBody(this, st) ==
    LET r == put(st.tmp, st.x, st.y)
    IN  [tmp    |-> this,
         boards |-> IF r.valid THEN Append(st.boards, flipPlayer(r.cells))
                    ELSE st.boards,
         x      |-> st.x + 1,
         y      |-> st.y]

\* for (size_t x = 0; x < BOARD_SIZE; ++x)
RECURSIVE nextStatesRow(_, _)
nextStatesRow(this, st) ==
    IF st.x >= BOARD_SIZE THEN st
    ELSE nextStatesRow(this, nextStatesBody(this, st))

\* for (size_t y = 0; y < BOARD_SIZE; ++y)
RECURSIVE nextStatesLoop(_, _)
nextStatesLoop(this, st) ==
    IF st.y >= BOARD_SIZE THEN st
    ELSE nextStatesLoop(this,
             [nextStatesRow(this, [st EXCEPT !.x = 0]) EXCEPT !.y = @ + 1])

getNextStates(this) ==
    nextStatesLoop(this, [tmp |-> this, boards |-> << >>, x |-> 0, y |-> 0]).boards

(***************************************************************************)
(* float.  A float is modelled with the value it holds: the record         *)
(* [m, e] stands for m * 2^e with 2^23 <= m < 2^24 (24 significant bits),  *)
(* and [0, 0] for 0.0.  Every operation rounds its exact result to the     *)
(* nearest such value, ties to the even m, as each IEEE-754 single         *)
(* operation does.  The values passed to propagateResult are k/64 or       *)
(* 1 - k/64, which a float holds exactly; they are kept as the integer     *)
(* number of 64ths.                                                        *)
(***************************************************************************)
FZero == [m |-> 0, e |-> 0]

\* the number of bits of n > 0
RECURSIVE BitLen(_)
BitLen(n) == IF n = 0 THEN 0 ELSE 1 + BitLen(n \div 2)

\* the float nearest to (n / d) * 2^e, for integers n >= 0, d > 0 with
\* n / d >= 2^23 or d = 1
RoundToFloat(n, d, e) ==
    LET q == n \div d
        r == n % d
    IN  IF q = 0 /\ r = 0 THEN FZero
        ELSE IF BitLen(q) <= 24
        THEN \* no bit of q is dropped; d = 1 when q has fewer than 24 bits
             LET up == (2 * r > d) \/ (2 * r = d /\ q % 2 = 1)
                 m  == (IF up THEN q + 1 ELSE q) * 2^(24 - BitLen(q))
             IN  IF m = 2^24 THEN [m |-> 2^23, e |-> e + 1]
                 ELSE [m |-> m, e |-> e - (24 - BitLen(q))]
        ELSE LET s    == BitLen(q) - 24
                 hi   == q \div 2^s
                 lo   == (q % 2^s) * d + r      \* dropped part, in units 1/d
                 half == 2^(s - 1) * d
                 up   == (lo > half) \/ (lo = half /\ hi % 2 = 1)
                 m    == IF up THEN hi + 1 ELSE hi
             IN  IF m = 2^24 THEN [m |-> 2^23, e |-> e + s + 1]
                 ELSE [m |-> m, e |-> e + s]

\* games_ * mean_: games_ converted to float (exact), then float * float
FMulInt(g, f) == RoundToFloat(g * f.m, 1, f.e)

\* f + occ, occ given in 64ths
FAdd64(f, occ) ==
    IF f.m = 0 THEN RoundToFloat(occ, 1, -6)
    ELSE RoundToFloat(f.m + occ * 2^((-6) - f.e), 1, f.e)

\* f / (games_ + 1): the divisor converted to float (exact), then float / float
FDivInt(f, d) ==
    IF f.m = 0 THEN FZero ELSE RoundToFloat(f.m * 2^7, d, f.e - 7)

(***************************************************************************)
(* Input positions.  Besides INITIAL_BOARD they are positions of games     *)
(* played from INITIAL_BOARD by the rules of main(): a legal put by the    *)
(* human, flipPlayer, then a board returned by searchMove.                 *)
(***************************************************************************)

\* a position at the "move? " prompt, 14 cells EMPTY
MIDGAME_BOARD ==
    << "X", ".", ".", ".", "O", "X", "X", "X" >> \o
    << "X", "X", ".", ".", "O", "X", "X", "X" >> \o
    << "X", "X", "X", ".", "O", "X", "X", "X" >> \o
    << "X", "X", "O", "X", "O", "O", "X", "." >> \o
    << "O", "O", "X", "O", "O", "X", ".", "." >> \o
    << "O", "O", "O", "O", "X", "O", "O", "O" >> \o
    << "X", "O", "O", "O", "O", "O", "O", "O" >> \o
    << ".", ".", "X", ".", ".", ".", "X", "O" >>

\* a position passed to searchMove, 2 cells EMPTY, 2 legal placements
END_A ==
    << "X", "X", "X", "X", "O", "O", "X", "X" >> \o
    << "X", "X", "X", "O", "O", "O", "X", "X" >> \o
    << "O", "X", "O", "X", "X", "O", "X", "X" >> \o
    << "O", "O", "X", "O", "X", "O", "X", "X" >> \o
    << "O", "X", "O", "X", "O", "X", "X", "X" >> \o
    << "O", "O", "O", "O", "X", "O", "X", "X" >> \o
    << "O", "O", "O", "O", "O", ".", "O", "X" >> \o
    << "O", "O", "O", "O", "O", "O", ".", "O" >>

\* a position passed to searchMove, 1 cell EMPTY, no legal placement
END_0 ==
    << "O", "X", "X", "X", "X", "O", "O", "O" >> \o
    << "O", "X", "X", "X", "O", "X", "O", "O" >> \o
    << "O", "X", "X", "X", "O", "O", "X", "O" >> \o
    << "O", "X", "O", "O", "O", "X", "X", "X" >> \o
    << "O", "O", "O", "O", "O", "O", "X", "X" >> \o
    << "O", "O", "O", "X", "O", "X", "O", "X" >> \o
    << "O", "O", "O", "O", "O", "O", "O", "O" >> \o
    << ".", "X", "X", "X", "X", "X", "X", "X" >>

\* a position passed to searchMove, 2 cells EMPTY, 1 legal placement
END_1 ==
    << "O", "O", "O", "X", "X", "X", "X", "X" >> \o
    << ".", "O", "O", "O", "O", "X", "X", "X" >> \o
    << "O", "X", "O", "X", "X", "O", "O", "O" >> \o
    << "O", "O", "O", "X", "O", "X", "X", "X" >> \o
    << "O", "O", "X", "X", "O", "X", "X", "X" >> \o
    << "O", "X", "O", "X", "X", "O", "X", "X" >> \o
    << ".", "X", "X", "X", "X", "X", "X", "X" >> \o
    << "O", "X", "X", "X", "X", "X", "X", "X" >>

\* a position passed to searchMove, 3 cells EMPTY, 2 legal placements
END_B ==
    << "X", "X", ".", "O", "O", "O", "O", "O" >> \o
    << "X", "X", "X", "O", "O", "O", "O", "O" >> \o
    << "X", "X", "X", "O", "O", "O", "O", "O" >> \o
    << "X", "X", "X", "O", "X", "O", "O", "O" >> \o
    << "X", "X", "X", "O", "O", "O", "O", "O" >> \o
    << "X", "X", "X", "X", "O", "O", "O", "." >> \o
    << "X", "X", "X", "X", "X", "X", "O", "X" >> \o
    << "X", "X", "X", "X", "X", "X", "O", "." >>

\* a position passed to searchMove, 3 cells EMPTY, 3 legal placements
END_C ==
    << "X", "X", ".", "O", "O", "O", ".", "X" >> \o
    << "X", "X", "O", "O", "O", "O", "O", "X" >> \o
    << "X", "O", "X", "O", "X", "O", "O", "X" >> \o
    << "X", "O", "O", "O", "O", "O", "O", "X" >> \o
    << "X", "X", "O", "O", "O", "O", "X", "X" >> \o
    << "X", "O", "O", "O", "O", "X", ".", "X" >> \o
    << "O", "O", "O", "O", "O", "O", "O", "X" >> \o
    << "O", "O", "O", "O", "O", "O", "O", "X" >>

\* a position passed to searchMove, 4 cells EMPTY, 3 legal placements
END_D ==
    << ".", "X", "O", "O", "O", "O", "O", "X" >> \o
    << "O", "O", "O", "O", "O", "O", "O", "X" >> \o
    << ".", "O", "O", "O", "O", "X", "O", "X" >> \o
    << "O", "X", "O", "O", "X", "X", "X", "X" >> \o
    << "O", "O", "O", "X", "O", "O", "X", "O" >> \o
    << "O", "O", "O", "X", "O", "X", "X", "O" >> \o
    << "O", "O", "O", "X", "X", "X", "O", "O" >> \o
    << "O", ".", "O", "X", "X", ".", "O", "O" >>

(***************************************************************************)
(* State.                                                                  *)
(***************************************************************************)
VARIABLES
    \* a Board object and the last operation applied to it
    current,    \* cells_ of the Board
    op,         \* the last member function called on it
    arg,        \* <<x, y>> of the last put
    ret,        \* the value the last put returned
    prev,       \* cells_ before the last call
    boards,     \* the vector the last getNextStates returned
    nops,       \* number of calls made so far
    \* one call of searchMove
    pc,         \* position in searchMove
    board,      \* the parameter board
    budget,     \* the parameter time_sec, in clock ticks
    nodes,      \* the Node objects, in order of construction
    sums,       \* history: per node, the sum of the values propagated to it
    cur,        \* the node the descent is at (current / c)
    sim,        \* the locals of playout: current, player, passed, boards
    prop,       \* the pending propagateResult call: node and occ
    result,     \* the Board returned
    iters,      \* iterations of the search loop started so far
    call,       \* history: the call of propagateResult the last playout made
    played      \* history: per node, the values its own playouts propagated

boardVars == <<current, op, arg, ret, prev, boards, nops>>
searchVars == <<pc, board, budget, nodes, sums, cur, sim, prop, result, iters,
                call, played>>
vars == <<current, op, arg, ret, prev, boards, nops,
          pc, board, budget, nodes, sums, cur, sim, prop, result, iters,
          call, played>>

\* no search is running
NoBoard == << >>
SearchIdle ==
    /\ pc = "idle" /\ board = NoBoard /\ budget = 0 /\ nodes = << >>
    /\ sums = << >>
    /\ cur = 0 /\ sim = << >> /\ prop = << >> /\ result = NoBoard /\ iters = 0
    /\ call = << >> /\ played = << >>

(***************************************************************************)
(* SpecBoard: a Board object under the calls the program makes on it.      *)
(***************************************************************************)

\* calls per behaviour
MaxOps == 2

\* a coordinate of the size_t range that is far out of the board, as
\* tolower(str[0]) - 'a' yields for a character below 'a'
SIZE_FAR == 2147483647

\* the coordinates main() may pass to put
InputCoords == (0 .. BOARD_SIZE) \cup {SIZE_FAR}

BoardInputs == {Board(INITIAL_BOARD), Board(MIDGAME_BOARD), Board(END_A)}

InitBoard ==
    /\ current \in BoardInputs
    /\ op = "Board"
    /\ arg = <<0, 0>>
    /\ ret = FALSE
    /\ prev = current
    /\ boards = << >>
    /\ nops = 0
    /\ SearchIdle

\* current.put(x, y), as in the read loop of main()
Put(x, y) ==
    /\ nops < MaxOps
    /\ LET r == put(current, x, y)
       IN  /\ current' = r.cells
           /\ ret' = r.valid
    /\ prev' = current
    /\ arg' = <<x, y>>
    /\ op' = "put"
    /\ boards' = << >>
    /\ nops' = nops + 1
    /\ UNCHANGED searchVars

\* current.flipPlayer(), as main() does after an accepted move
FlipPlayer ==
    /\ nops < MaxOps
    /\ current' = flipPlayer(current)
    /\ prev' = current
    /\ op' = "flipPlayer"
    /\ boards' = << >>
    /\ nops' = nops + 1
    /\ UNCHANGED <<arg, ret>>
    /\ UNCHANGED searchVars

\* boards = current.getNextStates(), as searchMove and playout do
GetNextStates ==
    /\ nops < MaxOps
    /\ boards' = getNextStates(current)
    /\ prev' = current
    /\ op' = "getNextStates"
    /\ nops' = nops + 1
    /\ UNCHANGED <<current, arg, ret>>
    /\ UNCHANGED searchVars

\* current = boards.at(idx), as playout does with a successor
TakeNextState(idx) ==
    /\ nops < MaxOps
    /\ op = "getNextStates"
    /\ idx \in 1 .. Len(boards)
    /\ current' = boards[idx]
    /\ prev' = current
    /\ op' = "assign"
    /\ boards' = << >>
    /\ nops' = nops + 1
    /\ UNCHANGED <<arg, ret>>
    /\ UNCHANGED searchVars

NextBoard ==
    \/ \E x \in InputCoords, y \in InputCoords : Put(x, y)
    \/ FlipPlayer
    \/ GetNextStates
    \/ \E idx \in 1 .. BOARD_CELLS : TakeNextState(idx)

SpecBoard == InitBoard /\ [][NextBoard]_vars

(***************************************************************************)
(* Node.  The nodes live in the sequence nodes, a node is named by its     *)
(* index, parent_ = nullptr is index 0, children_ is a sequence of         *)
(* indices.                                                                *)
(***************************************************************************)
NoNode == 0

\* Node(const Board& board, Player player, Node* parent)
Node(b, player, parent) ==
    [board      |-> b,
     player     |-> player,
     isPassMove |-> FALSE,
     games      |-> 0,
     mean       |-> FZero,
     parent     |-> parent,
     children   |-> << >>]

\* (player == Player::BLACK) ? Player::WHITE : Player::BLACK
otherPlayer(player) == IF player = BLACK THEN WHITE ELSE BLACK

isLeafNode(ns, i) ==
    \/ ns[i].children = << >>
    \/ isFilled(ns[i].board)
    \/ (ns[i].parent # NoNode /\ ns[i].isPassMove /\ ns[ns[i].parent].isPassMove)

\* the loop of line 299 taking the boards from the last to the first
addChildren_Reversed(ns, i, bs, nextPlayer) ==
    [ns EXCEPT ![i].children = [k \in 1 .. Len(bs) |-> Len(ns) + k]]
        \o [k \in 1 .. Len(bs) |-> Node(bs[Len(bs) + 1 - k], nextPlayer, i)]

\* children_.emplace_back(std::make_shared<Node>(board, nextPlayer, this))
\* for every board of bs
addChildren(ns, i, bs, nextPlayer) ==
    [ns EXCEPT ![i].children = [k \in 1 .. Len(bs) |-> Len(ns) + k]]
        \o [k \in 1 .. Len(bs) |-> Node(bs[k], nextPlayer, i)]

\* expand without the test games_ >= MIN_VISITS_TO_EXPAND
expand_NoVisitTest(ns, i) ==
    LET n == ns[i]
    IN  IF n.isPassMove /\ n.parent = NoNode THEN [ok |-> FALSE, nodes |-> ns]
        ELSE IF n.isPassMove /\ ns[n.parent].isPassMove THEN [ok |-> TRUE, nodes |-> ns]
        ELSE IF n.children = << >>
        THEN LET nextPlayer == otherPlayer(n.player)
                 bs         == getNextStates(n.board)
                 marked     == [ns EXCEPT ![i].isPassMove = (bs = << >>)]
             IN  IF bs = << >>
                 THEN IF n.parent = NoNode THEN [ok |-> FALSE, nodes |-> marked]
                      ELSE IF ~ns[n.parent].isPassMove
                      THEN [ok |-> TRUE,
                            nodes |-> addChildren(marked, i, <<flipped(n.board)>>, nextPlayer)]
                      ELSE [ok |-> TRUE, nodes |-> marked]
                 ELSE [ok |-> TRUE, nodes |-> addChildren(marked, i, bs, nextPlayer)]
        ELSE [ok |-> TRUE, nodes |-> ns]

\* expand without the tests of parent_->isPassMove_
expand_PassChain(ns, i) ==
    LET n == ns[i]
    IN  IF n.isPassMove /\ n.parent = NoNode THEN [ok |-> FALSE, nodes |-> ns]
        ELSE IF n.children = << >> /\ n.games >= MIN_VISITS_TO_EXPAND
        THEN LET nextPlayer == otherPlayer(n.player)
                 bs         == getNextStates(n.board)
                 marked     == [ns EXCEPT ![i].isPassMove = (bs = << >>)]
             IN  IF bs = << >>
                 THEN IF n.parent = NoNode THEN [ok |-> FALSE, nodes |-> marked]
                      ELSE [ok |-> TRUE,
                            nodes |-> addChildren(marked, i, <<flipped(n.board)>>, nextPlayer)]
                 ELSE [ok |-> TRUE, nodes |-> addChildren(marked, i, bs, nextPlayer)]
        ELSE [ok |-> TRUE, nodes |-> ns]

\* expand(): the nodes it leaves; ok is FALSE when an assert(parent_) fails
expand(ns, i) ==
    LET n == ns[i]
    IN  IF n.isPassMove /\ n.parent = NoNode THEN [ok |-> FALSE, nodes |-> ns]
        ELSE IF n.isPassMove /\ ns[n.parent].isPassMove THEN [ok |-> TRUE, nodes |-> ns]
        ELSE IF n.children = << >> /\ n.games >= MIN_VISITS_TO_EXPAND
        THEN LET nextPlayer == otherPlayer(n.player)
                 bs         == getNextStates(n.board)
                 marked     == [ns EXCEPT ![i].isPassMove = (bs = << >>)]
             IN  IF bs = << >>
                 THEN IF n.parent = NoNode THEN [ok |-> FALSE, nodes |-> marked]
                      ELSE IF ~ns[n.parent].isPassMove
                      THEN [ok |-> TRUE,
                            nodes |-> addChildren(marked, i, <<flipped(n.board)>>, nextPlayer)]
                      ELSE [ok |-> TRUE, nodes |-> marked]
                 ELSE [ok |-> TRUE, nodes |-> addChildren(marked, i, bs, nextPlayer)]
        ELSE [ok |-> TRUE, nodes |-> ns]

\* the first two lines of propagateResult with games_ + 1 replaced by games_
\* in the divisor
propagateNode_DivByGames(n, occ) ==
    [n EXCEPT !.mean  = FDivInt(FAdd64(FMulInt(n.games, n.mean), occ),
                                IF n.games = 0 THEN 1 ELSE n.games),
              !.games = @ + 1]

\* the first two lines of propagateResult on one node; occ in 64ths
propagateNode(n, occ) ==
    [n EXCEPT !.mean  = FDivInt(FAdd64(FMulInt(n.games, n.mean), occ), n.games + 1),
              !.games = @ + 1]

\* INFINITY, above every finite score
INFINITY == BOARD_CELLS

\* max_element without the order of encounter: the last largest element
getChildWithMaxValue_Last(values) ==
    CHOOSE i \in 1 .. Len(values) :
        /\ \A j \in 1 .. Len(values) : values[j] <= values[i]
        /\ \A j \in (i + 1) .. Len(values) : values[j] < values[i]

\* getChildWithMaxValue: std::max_element yields the first largest element
getChildWithMaxValue(values) ==
    CHOOSE i \in 1 .. Len(values) :
        /\ \A j \in 1 .. Len(values) : values[j] <= values[i]
        /\ \A j \in 1 .. (i - 1) : values[j] < values[i]

\* the second assert of calcUCB holds for child c
calcUCBAssert(ns, c) == ns[c].games <= ns[ns[c].parent].games

\* calcUCB: INFINITY for an unvisited child.  For a visited child the value
\* mean_ + EXPLORATION_CONST * sqrtf(logf(parent_->games_) / games_) is finite;
\* sqrtf and logf are not computed: score, any ranking of the children, stands
\* for the finite values.
calcUCB(ns, c, k, score) == IF ns[c].games = 0 THEN INFINITY ELSE score[k]

(***************************************************************************)
(* Spec: one call searchMove(board, time_sec).                             *)
(***************************************************************************)

\* iterations of the search loop per call
MaxIter == 6

SearchInputs ==
    {Board(END_0), Board(END_1), Board(END_A), Board(END_B), Board(END_C), Board(END_D)}

\* time_sec * CLOCKS_PER_SEC, and the readings clock() - start compared with
\* it, in units of a positive budget: a reading 0 is below a positive budget,
\* a reading 1 is not
TimeBudgets == {-1, 0, 1}
ClockReadings == {0, 1}

BoardIdle ==
    /\ current = NoBoard /\ op = "idle" /\ arg = <<0, 0>> /\ ret = FALSE
    /\ prev = NoBoard /\ boards = << >> /\ nops = 0

Init ==
    /\ board \in SearchInputs
    /\ budget \in TimeBudgets
    /\ pc = "start"
    /\ nodes = << >>
    /\ sums = << >>
    /\ cur = NoNode
    /\ sim = << >>
    /\ prop = << >>
    /\ result = NoBoard
    /\ iters = 0
    /\ call = << >>
    /\ played = << >>
    /\ BoardIdle

\* the switch on boards.size(): the early returns of searchMove
searchSwitch_OneFallsThrough(b, bs) ==
    IF Len(bs) = 0 THEN [done |-> TRUE, result |-> flipped(b)]
    ELSE [done |-> FALSE, result |-> NoBoard]

searchSwitch(b, bs) ==
    CASE Len(bs) = 0 -> [done |-> TRUE, result |-> flipped(b)]
      [] Len(bs) = 1 -> [done |-> TRUE, result |-> bs[1]]
      [] OTHER       -> [done |-> FALSE, result |-> NoBoard]

\* searchMove up to the loop: getNextStates, the switch, the root and
\* root->expand()
SearchBegin ==
    /\ pc = "start"
    /\ LET sw == searchSwitch(board, getNextStates(board))
       IN  IF sw.done
           THEN /\ result' = sw.result
                /\ pc' = "done"
                /\ UNCHANGED <<nodes, sums, played>>
           ELSE LET ex == expand(<<Node(board, BLACK, NoNode)>>, 1)
                IN  /\ nodes' = ex.nodes
                    /\ sums' = [k \in 1 .. Len(ex.nodes) |-> 0]
                    /\ played' = [k \in 1 .. Len(ex.nodes) |-> {}]
                    /\ pc' = IF ex.ok THEN "loop" ELSE "assert_parent"
                    /\ UNCHANGED result
    /\ UNCHANGED <<board, budget, cur, sim, prop, iters, call>>
    /\ UNCHANGED boardVars

\* while (clock() - start < time_sec * CLOCKS_PER_SEC)
LoopTest(elapsed) ==
    /\ pc = "loop"
    /\ IF elapsed < budget
       THEN /\ iters < MaxIter
            /\ iters' = iters + 1
            /\ cur' = 1
            /\ pc' = "descend"
       ELSE /\ pc' = "select"
            /\ UNCHANGED <<iters, cur>>
    /\ UNCHANGED <<board, budget, nodes, sums, sim, prop, result, call, played>>
    /\ UNCHANGED boardVars

\* the locals of playout at its loop test; boards is what line 259 computes
\* from current when the loop body is entered
playoutLocals(b, player, passed) ==
    [current |-> b,
     player  |-> player,
     passed  |-> passed,
     boards  |-> IF isFilled(b) THEN << >> ELSE getNextStates(b)]

\* one pass of the inner while (true): a leaf starts its playout, another
\* node hands over to getChildWithMaxUCB()
Descend ==
    /\ pc = "descend"
    /\ IF isLeafNode(nodes, cur)
       THEN /\ sim' = playoutLocals(nodes[cur].board, nodes[cur].player,
                                    nodes[cur].isPassMove)
            /\ pc' = "playout"
            /\ UNCHANGED cur
       ELSE LET ch == nodes[cur].children
            IN  IF \E k \in 1 .. Len(ch) : ~calcUCBAssert(nodes, ch[k])
                THEN /\ pc' = "assert_calcUCB"
                     /\ UNCHANGED <<cur, sim>>
                ELSE /\ \E score \in [1 .. Len(ch) -> 0 .. (Len(ch) - 1)] :
                            cur' = ch[getChildWithMaxValue(
                                        [k \in 1 .. Len(ch) |->
                                            calcUCB(nodes, ch[k], k, score)])]
                     /\ UNCHANGED <<pc, sim>>
    /\ UNCHANGED <<board, budget, nodes, sums, prop, result, iters, call, played>>
    /\ UNCHANGED boardVars

\* the simulation is over: the board is full, or nobody can place and the
\* previous ply was a pass
playoutOver(s) ==
    \/ isFilled(s.current)
    \/ (s.boards = << >> /\ s.passed)

\* the loop body of playout without passed = true
PlayoutStep_PassNotRecorded(idx) ==
    /\ pc = "playout"
    /\ ~playoutOver(sim)
    /\ IF sim.boards = << >>
       THEN /\ idx = 0
            /\ sim' = playoutLocals(flipped(sim.current), otherPlayer(sim.player), FALSE)
       ELSE /\ idx < Len(sim.boards)
            /\ sim' = playoutLocals(sim.boards[idx + 1], otherPlayer(sim.player), FALSE)
    /\ UNCHANGED <<pc, board, budget, nodes, sums, cur, prop, result, iters,
                   call, played>>
    /\ UNCHANGED boardVars

\* one pass of the while loop of playout; idx is randomIndex(boards.size())
PlayoutStep(idx) ==
    /\ pc = "playout"
    /\ ~playoutOver(sim)
    /\ IF sim.boards = << >>
       THEN /\ idx = 0
            /\ sim' = playoutLocals(flipped(sim.current), otherPlayer(sim.player), TRUE)
       ELSE /\ idx < Len(sim.boards)
            /\ sim' = playoutLocals(sim.boards[idx + 1], otherPlayer(sim.player), FALSE)
    /\ UNCHANGED <<pc, board, budget, nodes, sums, cur, prop, result, iters,
                   call, played>>
    /\ UNCHANGED boardVars

\* the value playout passes to propagateResult, in 64ths
playoutValue(s, player_) ==
    LET occ == countBlack(s.current)
    IN  IF s.player = player_ THEN BOARD_CELLS - occ ELSE occ

\* the end of playout: occ and the call of propagateResult
PlayoutEnd ==
    /\ pc = "playout"
    /\ playoutOver(sim)
    /\ LET occ == playoutValue(sim, nodes[cur].player)
       IN  /\ prop' = [node |-> cur, occ |-> occ]
           /\ call' = [node |-> cur, occ |-> occ, before |-> nodes,
                       current |-> sim.current, player |-> sim.player]
           /\ played' = [played EXCEPT ![cur] = @ \cup {occ}]
    /\ sim' = << >>
    /\ pc' = "propagate"
    /\ UNCHANGED <<board, budget, nodes, sums, cur, result, iters>>
    /\ UNCHANGED boardVars

\* propagateResult calling the parent with occ in the place of 1 - occ
PropagateStep_NotNegated ==
    /\ pc = "propagate"
    /\ nodes' = [nodes EXCEPT ![prop.node] = propagateNode(@, prop.occ)]
    /\ sums' = [sums EXCEPT ![prop.node] = @ + prop.occ]
    /\ IF nodes[prop.node].parent # NoNode
       THEN /\ prop' = [node |-> nodes[prop.node].parent, occ |-> prop.occ]
            /\ UNCHANGED pc
       ELSE /\ prop' = << >>
            /\ pc' = "expand"
    /\ UNCHANGED <<board, budget, cur, sim, result, iters, call, played>>
    /\ UNCHANGED boardVars

\* propagateResult without the call on the parent
PropagateStep_NoRecursion ==
    /\ pc = "propagate"
    /\ nodes' = [nodes EXCEPT ![prop.node] = propagateNode(@, prop.occ)]
    /\ sums' = [sums EXCEPT ![prop.node] = @ + prop.occ]
    /\ prop' = << >>
    /\ pc' = "expand"
    /\ UNCHANGED <<board, budget, cur, sim, result, iters, call, played>>
    /\ UNCHANGED boardVars

\* one activation of propagateResult(occ): this node, then the call on the
\* parent with 1 - occ, or the return to searchMove at the root
PropagateStep ==
    /\ pc = "propagate"
    /\ nodes' = [nodes EXCEPT ![prop.node] = propagateNode(@, prop.occ)]
    /\ sums' = [sums EXCEPT ![prop.node] = @ + prop.occ]
    /\ IF nodes[prop.node].parent # NoNode
       THEN /\ prop' = [node |-> nodes[prop.node].parent,
                        occ  |-> BOARD_CELLS - prop.occ]
            /\ UNCHANGED pc
       ELSE /\ prop' = << >>
            /\ pc' = "expand"
    /\ UNCHANGED <<board, budget, cur, sim, result, iters, call, played>>
    /\ UNCHANGED boardVars

\* c->expand() after the playout, then back to the loop test
Expand ==
    /\ pc = "expand"
    /\ LET ex == expand(nodes, cur)
       IN  /\ nodes' = ex.nodes
           /\ sums' = sums \o [k \in 1 .. (Len(ex.nodes) - Len(nodes)) |-> 0]
           /\ played' = played \o [k \in 1 .. (Len(ex.nodes) - Len(nodes)) |-> {}]
           /\ pc' = IF ex.ok THEN "loop" ELSE "assert_parent"
    /\ call' = << >>
    /\ UNCHANGED <<board, budget, cur, sim, prop, result, iters>>
    /\ UNCHANGED boardVars

\* after the loop: root->getChildWithMaxVisits() and the return
Select ==
    /\ pc = "select"
    /\ LET ch == nodes[1].children
       IN  IF ch = << >>
           THEN /\ pc' = "assert_children"
                /\ UNCHANGED result
           ELSE /\ result' = nodes[ch[getChildWithMaxValue(
                                         [k \in 1 .. Len(ch) |-> nodes[ch[k]].games])]].board
                /\ pc' = "done"
    /\ UNCHANGED <<board, budget, nodes, sums, cur, sim, prop, iters, call, played>>
    /\ UNCHANGED boardVars

Next ==
    \/ SearchBegin
    \/ \E elapsed \in ClockReadings : LoopTest(elapsed)
    \/ Descend
    \/ \E idx \in 0 .. (BOARD_CELLS - 1) : PlayoutStep(idx)
    \/ PlayoutEnd
    \/ PropagateStep
    \/ Expand
    \/ Select

Spec == Init /\ [][Next]_vars

\* Spec with the progress of a sequential program inside one iteration: the
\* descent and the playout take their next step whenever they have one.
\* These are the weak fairness conditions of Descend, PlayoutStep and
\* PlayoutEnd.  Those of Descend and PlayoutStep are written out, infinitely
\* often disabled or infinitely often taken, with the enabling condition as
\* the state predicate it is: a step of the descent is possible exactly at
\* pc = "descend", a ply of the playout exactly while the simulation is not
\* over; either step changes cur, sim or pc.
FairSpec ==
    /\ Init
    /\ [][Next]_vars
    /\ ([]<>(pc # "descend") \/ []<><<Descend>>_vars)
    /\ ([]<>(pc # "playout" \/ playoutOver(sim))
          \/ []<><<\E idx \in 0 .. (BOARD_CELLS - 1) : PlayoutStep(idx)>>_vars)
    /\ WF_vars(PlayoutEnd)

(***************************************************************************)
(* The rules of Reversi, stated independently of the loops of put: used    *)
(* by the properties below to say what a placement should do.              *)
(***************************************************************************)
OnBoard(x, y) == x \in 0 .. (BOARD_SIZE - 1) /\ y \in 0 .. (BOARD_SIZE - 1)

Compass == {d \in (-1 .. 1) \X (-1 .. 1) : d # <<0, 0>>}

\* the index of the cell at distance k from (x, y) in direction d
CellAt(x, y, d, k) == (x + k * d[1]) + (y + k * d[2]) * BOARD_SIZE

\* the cell at distance k from (x, y) in direction d is on the board and WHITE
WhiteAt(b, x, y, d, k) ==
    OnBoard(x + k * d[1], y + k * d[2]) /\ b[CellAt(x, y, d, k)] = WHITE

\* the length of the run of contiguous WHITE cells that starts next to (x, y)
RunLength(b, x, y, d) ==
    CHOOSE n \in 0 .. BOARD_SIZE :
        /\ \A k \in 1 .. n : WhiteAt(b, x, y, d, k)
        /\ ~WhiteAt(b, x, y, d, n + 1)

\* the run has one cell or more and is immediately followed by a BLACK cell
Captures(b, x, y, d) ==
    LET n == RunLength(b, x, y, d)
    IN  /\ n >= 1
        /\ OnBoard(x + (n + 1) * d[1], y + (n + 1) * d[2])
        /\ b[CellAt(x, y, d, n + 1)] = BLACK

CapturingDirs(b, x, y) == {d \in Compass : Captures(b, x, y, d)}

\* the WHITE cells of the capturing runs from (x, y)
Captured(b, x, y) ==
    UNION {{CellAt(x, y, d, k) : k \in 1 .. RunLength(b, x, y, d)} :
              d \in CapturingDirs(b, x, y)}

\* the board after a legal placement at (x, y)
Placed(b, x, y) ==
    LET flips == Captured(b, x, y)
    IN  [i \in CellIdx |->
            IF i = x + y * BOARD_SIZE \/ i \in flips THEN BLACK ELSE b[i]]

\* BLACK and WHITE exchanged
Swapped(b) ==
    [i \in CellIdx |->
        IF b[i] = BLACK THEN WHITE ELSE IF b[i] = WHITE THEN BLACK ELSE EMPTY]

\* the positions x + y * BOARD_SIZE where a placement is legal
LegalPositions(b) ==
    {i \in CellIdx :
        /\ b[i] = EMPTY
        /\ CapturingDirs(b, i % BOARD_SIZE, i \div BOARD_SIZE) # {}}

\* the number of elements of S below i
RankIn(S, i) == Cardinality({j \in S : j < i})

\* put was the last call, on an EMPTY cell of the board
PutOnEmpty ==
    /\ op = "put"
    /\ OnBoard(arg[1], arg[2])
    /\ prev[arg[1] + arg[2] * BOARD_SIZE] = EMPTY

(***************************************************************************)
(* C1: put on an in-bounds EMPTY cell from which no direction captures     *)
(* returns false and leaves all 64 cells as they were.                     *)
(***************************************************************************)
C1_RejectedPutLeavesBoard ==
    (PutOnEmpty /\ CapturingDirs(prev, arg[1], arg[2]) = {})
        => (ret = FALSE /\ current = prev)

(***************************************************************************)
(* C3: put on an in-bounds EMPTY cell returns true iff some direction has  *)
(* a run of WHITE cells followed by a BLACK cell; when it returns true the *)
(* board differs from the one before exactly in that (x, y) and the WHITE  *)
(* cells of the capturing runs are BLACK, at least one of them.            *)
(***************************************************************************)
C3_PutCapturesExactly ==
    PutOnEmpty =>
        /\ ret <=> (CapturingDirs(prev, arg[1], arg[2]) # {})
        /\ ret => LET flips == Captured(prev, arg[1], arg[2])
                  IN  /\ current = Placed(prev, arg[1], arg[2])
                      /\ \E i \in CellIdx : prev[i] = WHITE /\ current[i] = BLACK
                      /\ \A i \in CellIdx :
                            (current[i] # prev[i]) =>
                                (i = arg[1] + arg[2] * BOARD_SIZE
                                   \/ (prev[i] = WHITE /\ i \in flips))

\* an accepted put that captures in two directions or more while another
\* direction holds a WHITE neighbour whose run does not capture
C3_Witness ==
    /\ PutOnEmpty
    /\ ret
    /\ Cardinality(CapturingDirs(prev, arg[1], arg[2])) >= 2
    /\ \E d \in Compass :
          /\ WhiteAt(prev, arg[1], arg[2], d, 1)
          /\ ~Captures(prev, arg[1], arg[2], d)

(***************************************************************************)
(* C4: getNextStates returns one board per position where a placement is   *)
(* legal, in row-major order of the position, each the placement followed  *)
(* by one colour flip; no board occurs twice; the board is not modified.   *)
(***************************************************************************)
C4_NextStatesExact ==
    (op = "getNextStates") =>
        LET L == LegalPositions(prev)
        IN  /\ Len(boards) = Cardinality(L)
            /\ \A i \in L :
                  boards[RankIn(L, i) + 1]
                      = Swapped(Placed(prev, i % BOARD_SIZE, i \div BOARD_SIZE))
            /\ \A j, k \in 1 .. Len(boards) : (j # k) => (boards[j] # boards[k])
            /\ current = prev

\* getNextStates on a board with legal and illegal EMPTY positions
C4_Witness ==
    /\ op = "getNextStates"
    /\ Len(boards) >= 2
    /\ \E i \in CellIdx : prev[i] = EMPTY /\ i \notin LegalPositions(prev)

(***************************************************************************)
(* C5: from the standard opening getNextStates returns exactly 4 boards,   *)
(* each with 4 BLACK cells before the colour flip; after the colour flip   *)
(* the claim says 3 BLACK cells, the code leaves 1 BLACK and 4 WHITE.      *)
(***************************************************************************)
FromOpening == op = "getNextStates" /\ prev = Board(INITIAL_BOARD)

\* the board put leaves for the k-th legal position of b
PlacementNo(b, k) ==
    LET L == LegalPositions(b)
        i == CHOOSE j \in L : RankIn(L, j) + 1 = k
    IN  put(b, i % BOARD_SIZE, i \div BOARD_SIZE).cells

\* the claim as stated: 3 BLACK cells after the flip
C5_OpeningAsStated ==
    FromOpening =>
        /\ Len(boards) = 4
        /\ \A k \in 1 .. Len(boards) :
              /\ countBlack(PlacementNo(prev, k)) = 4
              /\ boards[k] = flipPlayer(PlacementNo(prev, k))
              /\ countBlack(boards[k]) = 3

\* amended: 1 BLACK cell (and 4 WHITE) after the flip
C5_OpeningSuccessors ==
    FromOpening =>
        /\ Len(boards) = 4
        /\ \A k \in 1 .. Len(boards) :
              /\ countBlack(PlacementNo(prev, k)) = 4
              /\ boards[k] = flipPlayer(PlacementNo(prev, k))
              /\ countBlack(boards[k]) = 1
              /\ Cardinality({i \in CellIdx : boards[k][i] = WHITE}) = 4

C5_Witness == FromOpening /\ Len(boards) = 4

(***************************************************************************)
(* C6: put on a cell out of bounds, or already BLACK or WHITE, returns     *)
(* false and leaves every cell unchanged.                                  *)
(***************************************************************************)
C6_PutOutsideOrOccupied ==
    (/\ op = "put"
     /\ \/ ~OnBoard(arg[1], arg[2])
        \/ prev[arg[1] + arg[2] * BOARD_SIZE] # EMPTY)
        => (ret = FALSE /\ current = prev)

\* a put on an occupied cell next to which a capture would be possible, and
\* one far out of the size_t range of the board
C6_Witness ==
    /\ op = "put"
    /\ \/ /\ OnBoard(arg[1], arg[2])
          /\ prev[arg[1] + arg[2] * BOARD_SIZE] = WHITE
          /\ \E d \in Compass : Captures(prev, arg[1], arg[2], d)
       \/ arg[1] = SIZE_FAR

(***************************************************************************)
(* Properties of Spec.                                                     *)
(***************************************************************************)
Root == 1
NodeIdx == 1 .. Len(nodes)
ChildrenOf(i) == {nodes[i].children[k] : k \in 1 .. Len(nodes[i].children)}

\* the boards of getNextStates, by the rules
Successors(b) ==
    {Swapped(Placed(b, i % BOARD_SIZE, i \div BOARD_SIZE)) : i \in LegalPositions(b)}

(***************************************************************************)
(* C2: on a board with two or more legal successors, for every time        *)
(* budget, searchMove reaches its final selection with a root that has     *)
(* children (assert(!children_.empty()) does not fail) and returns the     *)
(* board of a root child with maximal visit count, one of the successors.  *)
(***************************************************************************)
C2_SelectsMostVisitedChild ==
    (Cardinality(LegalPositions(board)) >= 2) =>
        /\ pc # "assert_children"
        /\ (pc = "select") => (nodes[Root].children # << >>)
        /\ (pc = "done") =>
              /\ \E c \in ChildrenOf(Root) :
                    /\ result = nodes[c].board
                    /\ \A d \in ChildrenOf(Root) : nodes[d].games <= nodes[c].games
              /\ result \in Successors(board)

(***************************************************************************)
(* C7: every node with at least one visit has a running mean in [0, 1]     *)
(* that equals the arithmetic mean of the values passed to                 *)
(* propagateResult: as stated, exactly; as amended, up to the rounding of  *)
(* the float operations, by at most games_ * 2^-22.                        *)
(***************************************************************************)
\* 0 <= f <= 1
InUnitInterval(f) == f.m = 0 \/ f.e <= -24 \/ (f.m = 2^23 /\ f.e = -23)

\* f = total / (64 * n), for f in [0, 1]
IsExactMean(f, total, n) ==
    IF f.m = 0 THEN total = 0
    ELSE LET k == (-6) - f.e        \* f * 64 * n = (f.m * n) / 2^k
         IN  /\ (f.m * n) % 2^k = 0
             /\ (f.m * n) \div 2^k = total

\* |f - total / (64 * n)| <= n * 2^-22, for f in [0, 1]
IsNearMean(f, total, n) ==
    IF f.m = 0 THEN total * 2^16 <= n * n
    ELSE LET k == (-6) - f.e
             q == (f.m * n) \div 2^k
             r == (f.m * n) % 2^k
             B == n * n * 2^(k - 16)
         IN  \/ q = total /\ r <= B
             \/ q = total - 1 /\ 2^k - r <= B

C7_MeanIsExactMean ==
    \A i \in NodeIdx :
        (nodes[i].games > 0) =>
            /\ InUnitInterval(nodes[i].mean)
            /\ IsExactMean(nodes[i].mean, sums[i], nodes[i].games)

C7_MeanIsRoundedMean ==
    \A i \in NodeIdx :
        (nodes[i].games > 0) =>
            /\ InUnitInterval(nodes[i].mean)
            /\ IsNearMean(nodes[i].mean, sums[i], nodes[i].games)

\* a node visited three times or more whose mean is not the exact mean
C7_Witness ==
    \E i \in NodeIdx :
        /\ nodes[i].games >= 3
        /\ ~IsExactMean(nodes[i].mean, sums[i], nodes[i].games)

(***************************************************************************)
(* C8: getChildWithMaxUCB returns the first child with zero visits         *)
(* whenever the node has one; so no child of a node has two or more        *)
(* visits while one of its siblings has zero.                              *)
(***************************************************************************)
Unvisited(i) == {k \in 1 .. Len(nodes[i].children) : nodes[nodes[i].children[k]].games = 0}

FirstUnvisited(i) ==
    nodes[i].children[CHOOSE k \in Unvisited(i) : \A j \in Unvisited(i) : k <= j]

NoSiblingStarved ==
    \A i \in NodeIdx : \A a, b \in ChildrenOf(i) :
        ~(nodes[a].games >= 2 /\ nodes[b].games = 0)

C8_UnvisitedChildFirst ==
    /\ []NoSiblingStarved
    /\ [][(pc = "descend" /\ ~isLeafNode(nodes, cur) /\ Unvisited(cur) # {})
             => (cur' = FirstUnvisited(cur))]_vars

\* the descent is at a node whose first child is visited and which has an
\* unvisited child
C8_Witness ==
    /\ pc = "descend"
    /\ ~isLeafNode(nodes, cur)
    /\ Unvisited(cur) # {}
    /\ 1 \notin Unvisited(cur)

(***************************************************************************)
(* C9: on a board with fewer than two legal successors searchMove returns  *)
(* without a root node and without a search iteration, whatever the        *)
(* budget: the colour-flipped board with no successor, the successor with  *)
(* exactly one.                                                            *)
(***************************************************************************)
C9_TrivialBoardsReturnAtOnce ==
    LET L == LegalPositions(board)
    IN  (Cardinality(L) < 2) =>
            /\ nodes = << >>
            /\ iters = 0
            /\ pc \in {"start", "done"}
            /\ (pc = "done") =>
                  IF L = {} THEN result = Swapped(board)
                  ELSE \A i \in L :
                          result = Swapped(Placed(board, i % BOARD_SIZE, i \div BOARD_SIZE))

\* returned with exactly one successor and a positive budget
C9_Witness ==
    /\ pc = "done"
    /\ Cardinality(LegalPositions(board)) = 1
    /\ budget > 0

(***************************************************************************)
(* C10: in every state of a search, also between the steps of a            *)
(* backpropagation, no node has more visits than its parent, and the       *)
(* assert of calcUCB does not fail.                                        *)
(***************************************************************************)
C10_VisitsBoundedByParent ==
    /\ pc # "assert_calcUCB"
    /\ \A i \in NodeIdx :
          (nodes[i].parent # NoNode) => (nodes[i].games <= nodes[nodes[i].parent].games)

\* in the middle of a backpropagation: a child already counted, its parent
\* next, both with the same count
C10_Witness ==
    /\ pc = "propagate"
    /\ \E i \in NodeIdx :
          /\ nodes[i].parent # NoNode
          /\ prop.node = nodes[i].parent
          /\ nodes[i].games >= 1
          /\ nodes[i].games = nodes[nodes[i].parent].games

(***************************************************************************)
(* C11: a node with zero visits has no children, the root included:        *)
(* root->expand() before the loop leaves the new root as constructed, and  *)
(* c->expand() after a playout changes nothing unless c has at least one   *)
(* visit and no children yet.                                              *)
(***************************************************************************)
UnvisitedIsChildless ==
    \A i \in NodeIdx : (nodes[i].games = 0) => (nodes[i].children = << >>)

C11_UnvisitedHasNoChildren ==
    /\ []UnvisitedIsChildless
    /\ [][(pc = "start" /\ pc' = "loop")
             => (nodes' = <<Node(board, BLACK, NoNode)>>)]_vars
    /\ [][(pc = "expand" /\ (nodes[cur].games = 0 \/ nodes[cur].children # << >>))
             => (nodes' = nodes)]_vars

\* root->expand() has returned and the root, unvisited, is still childless
C11_Witness ==
    /\ pc = "loop"
    /\ iters = 0
    /\ Len(nodes) = 1
    /\ nodes[Root].games = 0
    /\ nodes[Root].children = << >>

(***************************************************************************)
(* C12: flipPlayer turns every BLACK cell into WHITE and every WHITE cell  *)
(* into BLACK and leaves the EMPTY cells as they are; a second flipPlayer  *)
(* gives the board before the first one back, and flipped() returns the    *)
(* same board as flipPlayer() makes.                                       *)
(***************************************************************************)
C12_FlipPlayerIsInvolution ==
    (op = "flipPlayer") =>
        /\ \A i \in CellIdx :
              /\ (prev[i] = BLACK) => (current[i] = WHITE)
              /\ (prev[i] = WHITE) => (current[i] = BLACK)
              /\ (prev[i] = EMPTY) => (current[i] = EMPTY)
        /\ flipPlayer(current) = prev
        /\ flipped(prev) = current
        /\ flipped(flipped(prev)) = prev

\* flipPlayer has run on a board that holds cells of all three kinds and is
\* not its own mirror image
C12_Witness ==
    /\ op = "flipPlayer"
    /\ \A c \in Cell : \E i \in CellIdx : prev[i] = c
    /\ current # prev
    /\ countBlack(prev) # countBlack(current)

(***************************************************************************)
(* C13: the value playout() passes to propagateResult on its own node is   *)
(* the number of cells (of 64) that the opponent of the node's mover holds *)
(* in the final position of the simulation, whether the final mover is the *)
(* node's mover or not and whether the board is full or not.  In the       *)
(* final position BLACK cells are the stones of the final mover.           *)
(***************************************************************************)
CountOf(b, c) == Cardinality({i \in CellIdx : b[i] = c})

\* the stones the opponent of the mover of call.node holds at the end of the
\* last playout
OpponentCells ==
    IF call.player = call.before[call.node].player
    THEN CountOf(call.current, WHITE)
    ELSE CountOf(call.current, BLACK)

C13_PlayoutValueIsOpponentShare ==
    (call # << >>) => (call.occ = OpponentCells)

\* the same, for simulations that end on a full board or with the other
\* side to move
C13_PlayoutValueOnFullBoard ==
    (call # << >> /\ (isFilled(call.current)
                        \/ call.player # call.before[call.node].player))
        => (call.occ = OpponentCells)

(***************************************************************************)
(* C14: expand() on a visited, childless node whose board has no legal     *)
(* placement sets isPassMove_ and makes exactly one child, with the        *)
(* colour-swapped board and the other player, unless the parent is a       *)
(* forced pass, and then it makes no child.  So a forced-pass node whose   *)
(* parent is a forced pass has no children, no three forced-pass nodes     *)
(* follow one another on a path, and the flag is set only on boards        *)
(* without a legal placement.                                              *)
(***************************************************************************)
PassParent(i) == nodes[i].parent # NoNode /\ nodes[nodes[i].parent].isPassMove

NoChildBelowTwoPasses ==
    \A i \in NodeIdx :
        (nodes[i].isPassMove /\ PassParent(i)) => (nodes[i].children = << >>)

NoThreePasses ==
    \A i \in NodeIdx :
        ~(nodes[i].isPassMove /\ PassParent(i) /\ PassParent(nodes[i].parent))

PassFlagIsTrue ==
    \A i \in NodeIdx : nodes[i].isPassMove => (LegalPositions(nodes[i].board) = {})

\* what expand() leaves of nodes when the board of cur has no legal placement
PassExpanded ==
    LET marked == [nodes EXCEPT ![cur].isPassMove = TRUE]
    IN  IF PassParent(cur) THEN marked
        ELSE Append([marked EXCEPT ![cur].children = <<Len(nodes) + 1>>],
                    [board      |-> Swapped(nodes[cur].board),
                     player     |-> IF nodes[cur].player = BLACK THEN WHITE ELSE BLACK,
                     isPassMove |-> FALSE,
                     games      |-> 0,
                     mean       |-> FZero,
                     parent     |-> cur,
                     children   |-> << >>])

C14_PassExpansion ==
    /\ [](NoChildBelowTwoPasses /\ NoThreePasses /\ PassFlagIsTrue)
    /\ [][(/\ pc = "expand"
           /\ nodes[cur].games >= 1
           /\ nodes[cur].children = << >>
           /\ LegalPositions(nodes[cur].board) = {})
             => (nodes' = PassExpanded)]_vars

\* expand() has run on a forced-pass node below a forced-pass node, and on
\* the parent before it: the parent has its one child, the node has none
C14_Witness ==
    /\ pc = "loop"
    /\ cur \in NodeIdx
    /\ nodes[cur].isPassMove
    /\ PassParent(cur)
    /\ nodes[cur].games >= 1
    /\ nodes[cur].children = << >>
    /\ Len(nodes[nodes[cur].parent].children) = 1
    /\ ~PassParent(nodes[cur].parent)

(***************************************************************************)
(* C15: a node whose board is full never expands: in every state of a      *)
(* search it has no children.                                              *)
(***************************************************************************)
C15_FullBoardNeverExpands ==
    \A i \in NodeIdx : isFilled(nodes[i].board) => (nodes[i].children = << >>)

(***************************************************************************)
(* C16: every playout() ends, whatever the random choices: the loop is     *)
(* left exactly when the board is full or nobody can place and the ply     *)
(* before was a pass (the node's own forced pass counts as that ply); a    *)
(* ply that is not a pass removes one EMPTY cell, a pass leaves their      *)
(* number as it is and is never followed by a second pass ply.  The        *)
(* descent of every iteration ends at a leaf, each step leading to a       *)
(* child of the node before.                                               *)
(***************************************************************************)
Empties(b) == CountOf(b, EMPTY)

\* decreases with every ply of the simulation
PlayoutMeasure(s) == 2 * Empties(s.current) + (IF s.passed THEN 0 ELSE 1)

PlayoutEnds ==
    isFilled(sim.current) \/ (sim.passed /\ LegalPositions(sim.current) = {})

PlyDecreases ==
    /\ PlayoutMeasure(sim') < PlayoutMeasure(sim)
    /\ IF LegalPositions(sim.current) # {}
       THEN /\ Empties(sim'.current) = Empties(sim.current) - 1
            /\ ~sim'.passed
       ELSE /\ Empties(sim'.current) = Empties(sim.current)
            /\ sim'.passed

C16_PlayoutAndDescentEnd ==
    /\ (pc = "playout") ~> (pc = "propagate")
    /\ (pc = "descend") ~> (pc = "playout")
    /\ [][(pc = "playout") => ((pc' = "propagate") <=> PlayoutEnds)]_vars
    /\ [][(pc = "playout" /\ pc' = "playout") => PlyDecreases]_vars
    /\ [][(pc = "descend" /\ pc' = "descend") => (cur' \in ChildrenOf(cur))]_vars

\* a simulation that has made a placement and then a pass, EMPTY cells left
C16_Witness ==
    /\ pc = "playout"
    /\ sim.passed
    /\ ~nodes[cur].isPassMove
    /\ ~isFilled(sim.current)
    /\ Empties(sim.current) < Empties(nodes[cur].board)

(***************************************************************************)
(* C17: one propagateResult(v) started at a node adds exactly one visit to *)
(* that node and to each of its ancestors up to the root, folds v into the *)
(* mean of the nodes at even distance from the start and 1 - v into the    *)
(* mean of those at odd distance, ends at the root, and leaves every field *)
(* of every other node, and the board, flag, parent and children of the    *)
(* nodes of the path, as they were.  call holds the nodes before the call. *)
(***************************************************************************)
RECURSIVE DistanceUp(_, _, _)
\* the number of parent links from node i up to node a; -1 when a is not
\* reached
DistanceUp(ns, i, a) ==
    IF i = a THEN 0
    ELSE IF ns[i].parent = NoNode THEN -1
    ELSE LET d == DistanceUp(ns, ns[i].parent, a)
         IN  IF d < 0 THEN -1 ELSE d + 1

\* mean' = (games * mean + value) / (games + 1), in float
Folded(n, value) ==
    FDivInt(FAdd64(FMulInt(n.games, n.mean), value), n.games + 1)

\* node a after the propagation that call started, a at distance d above
PropagatedAt(a, d) ==
    LET old == call.before[a]
    IN  IF d < 0 THEN old
        ELSE [old EXCEPT !.games = old.games + 1,
                         !.mean  = Folded(old, IF d % 2 = 0 THEN call.occ
                                               ELSE BOARD_CELLS - call.occ)]

\* the activation pending in prop has not reached node a yet
NotYetReached(a) ==
    /\ pc = "propagate"
    /\ DistanceUp(call.before, prop.node, a) >= 0

C17_PropagateAlongPath ==
    (call # << >> /\ pc \in {"propagate", "expand"}) =>
        /\ Len(nodes) = Len(call.before)
        /\ \A a \in NodeIdx :
              nodes[a] = IF NotYetReached(a) THEN call.before[a]
                         ELSE PropagatedAt(a, DistanceUp(call.before, call.node, a))
        /\ (pc = "expand") => (nodes[Root].games = call.before[Root].games + 1)

\* a propagation from a node three levels below the root is complete, and
\* the tree has a node off its path
C17_Witness ==
    /\ pc = "expand"
    /\ call # << >>
    /\ DistanceUp(nodes, call.node, Root) >= 3
    /\ \E a \in NodeIdx : DistanceUp(nodes, call.node, a) < 0 /\ nodes[a].games >= 1

(***************************************************************************)
(* C18: between two iterations of the search loop the root has as many     *)
(* visits as iterations were completed, and every node that has children   *)
(* has one visit more than its children together when it is not a leaf     *)
(* for isLeafNode, and at least that many when it is.                      *)
(***************************************************************************)
RECURSIVE SumGames(_, _)
\* the visits of the first k children of node i together
SumGames(i, k) ==
    IF k = 0 THEN 0
    ELSE nodes[nodes[i].children[k]].games + SumGames(i, k - 1)

ChildVisits(i) == SumGames(i, Len(nodes[i].children))

BetweenIterations == pc \in {"loop", "select", "done"} /\ nodes # << >>

C18_VisitAccounting ==
    BetweenIterations =>
        /\ nodes[Root].games = iters
        /\ \A i \in NodeIdx :
              (nodes[i].children # << >>) =>
                  IF isLeafNode(nodes, i)
                  THEN nodes[i].games >= 1 + ChildVisits(i)
                  ELSE nodes[i].games = 1 + ChildVisits(i)

\* after four iterations or more: a node below the root with visited
\* children, and a leaf with a child whose visits exceed 1 + its children's
C18_Witness ==
    /\ pc = "loop"
    /\ iters >= 4
    /\ \E i \in NodeIdx :
          /\ i # Root
          /\ ~isLeafNode(nodes, i)
          /\ ChildVisits(i) >= 1
    /\ \E i \in NodeIdx :
          /\ nodes[i].children # << >>
          /\ isLeafNode(nodes, i)
          /\ nodes[i].games > 1 + ChildVisits(i)

(***************************************************************************)
(* C19: a node that has children and whose board has a legal placement has *)
(* one child per legal placement, in scan order, each with the board after *)
(* that placement, colours swapped; a child's player is the other one than *)
(* its parent's, BLACK at even depth and WHITE at odd depth; and every     *)
(* board of the tree is canonical: with the colours of the node's mover    *)
(* and its opponent put back, it is the position its parent's mover leaves *)
(* by a legal placement, or the parent's position after a pass.  The tree  *)
(* is built by root->expand() and c->expand(), both followed by the loop   *)
(* test: every tree of a search is the tree of a state at the loop test.   *)
(***************************************************************************)
\* the k-th cell index of the set L in scan order
LegalNo(L, k) == CHOOSE i \in L : RankIn(L, i) = k - 1

Depth(i) == DistanceUp(nodes, i, Root)

\* the position of node i in the colours of the game: BLACK is the mover
\* of the root
Position(i) ==
    IF nodes[i].player = BLACK THEN nodes[i].board ELSE Swapped(nodes[i].board)

\* position p after the side of colour c has placed at cell i
PlacedBy(p, c, i) ==
    IF c = BLACK THEN Placed(p, i % BOARD_SIZE, i \div BOARD_SIZE)
    ELSE Swapped(Placed(Swapped(p), i % BOARD_SIZE, i \div BOARD_SIZE))

\* the children of node i, whose board has the legal placements L
ChildPerSuccessor(i, L) ==
    /\ Len(nodes[i].children) = Cardinality(L)
    /\ \A k \in 1 .. Len(nodes[i].children) :
          LET c   == nodes[i].children[k]
              pos == LegalNo(L, k)
          IN  /\ nodes[c].board =
                    Swapped(Placed(nodes[i].board, pos % BOARD_SIZE, pos \div BOARD_SIZE))
              /\ Position(c) = PlacedBy(Position(i), nodes[i].player, pos)

\* the one child of a node that has to pass
PassChild(i) ==
    /\ Len(nodes[i].children) = 1
    /\ Position(nodes[i].children[1]) = Position(i)

TreeMirrorsGame ==
    /\ nodes[Root].parent = NoNode
    /\ Position(Root) = board
    /\ \A i \in NodeIdx :
          /\ (nodes[i].children # << >>) =>
                LET L == LegalPositions(nodes[i].board)
                IN  IF L # {} THEN ChildPerSuccessor(i, L) ELSE PassChild(i)
          /\ \A c \in ChildrenOf(i) :
                /\ nodes[c].parent = i
                /\ nodes[c].player # nodes[i].player
          /\ (i # Root) => (nodes[i].parent \in NodeIdx /\ i \in ChildrenOf(nodes[i].parent))
          /\ nodes[i].player = (IF Depth(i) % 2 = 0 THEN BLACK ELSE WHITE)

C19_TreeMirrorsGame ==
    (pc = "loop") => TreeMirrorsGame

\* a tree three levels deep with a node of three children or more and a
\* pass child
C19_Witness ==
    /\ pc = "loop"
    /\ \E i \in NodeIdx : Depth(i) >= 3
    /\ \E i \in NodeIdx : Len(nodes[i].children) >= 3
    /\ \E i \in NodeIdx :
          /\ nodes[i].children # << >>
          /\ LegalPositions(nodes[i].board) = {}

(***************************************************************************)
(* C20: a node whose position is game over with EMPTY cells left (neither  *)
(* side has a legal placement) gets the same value from every playout()    *)
(* started at it, before expand() has set its isPassMove_ and after.       *)
(***************************************************************************)
GameOverWithEmpties(b) ==
    /\ ~isFilled(b)
    /\ LegalPositions(b) = {}
    /\ LegalPositions(Swapped(b)) = {}

C20_SameValueBeforeAndAfterFlag ==
    \A i \in NodeIdx :
        (Cardinality(played[i]) > 1) => ~GameOverWithEmpties(nodes[i].board)

====
